---- MODULE Spec2Model ----
(***************************************************************************)
(* A model of the stateful plugins of ld-agent-plugins:                    *)
(*   - github_browser: the repository cloner (repo_cloner.py) and the      *)
(*     clone tools built on the global cloner (github_functions.py);       *)
(*   - ripgrep_tools: the global security configuration and the tools      *)
(*     that validate their paths against it (implementation.py);           *)
(*   - spotify_controller: the global controller and its tools;            *)
(*   - the external calls (subprocesses, HTTP requests) the tools wait on;  *)
(*   - github_browser's repository tree, discord_notifier, lexy's glossary  *)
(*     look-ups and google_websearch's retried request.                     *)
(* Each plugin has a specification of its own; the plugins share no state. *)
(***************************************************************************)
EXTENDS Integers, Sequences, FiniteSets, TLC

VARIABLES
    \* ---- github_browser ----
    now,          \* wall clock, in hours (time.time() / datetime.now())
    env,          \* the process environment (os.environ) read by the plugin
    ghInit,       \* github_functions._initialized together with _github_explorer
    cloner,       \* repo_cloner._repository_cloner: NoCloner or a RepositoryCloner
    disk,         \* the directories below github_temp_dir: path -> [size, mtime]
    last,         \* the last clone tool call: arguments, what it ran, what it returned
    gitRuns,      \* git clone commands run so far (bounds the model)
    \* ---- ripgrep_tools ----
    config,       \* implementation._plugin_config
    rgLast,       \* the last ripgrep tool call
    reqs,         \* handle_tenant_request calls in flight, one per tenant
    \* ---- spotify_controller ----
    spEnv,        \* Spotify credentials in the environment, cached token
    spInit,       \* spotify_functions._initialized
    spCtl,        \* spotify_functions._spotify_controller
    spLast,       \* the last Spotify tool call
    \* ---- external calls ----
    ext,          \* the subprocess or HTTP request a tool call is waiting on
    \* ---- github_browser: get_repository_tree ----
    tree,         \* the last get_repository_tree call: the API's items, the result
    \* ---- discord_notifier ----
    dc,           \* the last send_discord_notification call
    \* ---- lexy ----
    lx,           \* the last lookup_term / smart_query call
    \* ---- google_websearch ----
    sw,           \* the search_web call in progress: attempts, waits, result
    \* ---- github_browser: threads sharing the global cloner ----
    thr           \* the clone_repository call of each thread: its position and locals

ghVars == <<now, env, ghInit, cloner, disk, last, gitRuns>>
rgVars == <<config, rgLast, reqs>>
spVars == <<spEnv, spInit, spCtl, spLast>>
otherVars == <<ext, tree, dc, lx, sw, thr>>
vars == <<now, env, ghInit, cloner, disk, last, gitRuns, config, rgLast, reqs,
          spEnv, spInit, spCtl, spLast, ext, tree, dc, lx, sw, thr>>

None == "None"

(***************************************************************************)
(*                     github_browser: repository cloner                   *)
(***************************************************************************)

\* Bounds of the model.
MaxTime == 25
TickHours == 13
MaxGitRuns == 2

\* RepositoryCloner.__init__ defaults.
DefaultAutoCleanupHours == 24
DefaultMaxCloneSizeMb == 500

\* Arguments the tools are called with.  Strings are sequences of characters;
\* the empty string stands for None as well (both are falsy in "x or default").
NoStr == <<>>
Orgs == {<<"o">>}
RepoNames == {<<"a">>}
Branches == {NoStr}

\* Sizes (MB) a finished git clone may have: at and above the default limit.
CloneSizes == {DefaultMaxCloneSizeMb, DefaultMaxCloneSizeMb + 1}

\* What the git clone subprocess may do: succeed, exit non-zero, or hit the timeout
\* (subprocess.TimeoutExpired), which leaves the partial directory behind.
GitOutcomes == {"ok", "error", "timeout"}

\* Environments the process may run in.  The clone variables are the ones that
\* _module_info documents; token says whether a GitHub credential is configured.
EnvChoices ==
    { [token |-> TRUE, GITHUB_CLONE_ENABLED |-> "true",
       GITHUB_CLONE_MAX_SIZE_MB |-> DefaultMaxCloneSizeMb,
       GITHUB_CLONE_AUTO_CLEANUP_HOURS |-> DefaultAutoCleanupHours],
      [token |-> TRUE, GITHUB_CLONE_ENABLED |-> "false",
       GITHUB_CLONE_MAX_SIZE_MB |-> DefaultMaxCloneSizeMb - 1,
       GITHUB_CLONE_AUTO_CLEANUP_HOURS |-> TickHours],
      [token |-> FALSE, GITHUB_CLONE_ENABLED |-> "true",
       GITHUB_CLONE_MAX_SIZE_MB |-> DefaultMaxCloneSizeMb,
       GITHUB_CLONE_AUTO_CLEANUP_HOURS |-> DefaultAutoCleanupHours] }

Restrict(f, S) == [x \in S |-> f[x]]
Put(f, k, v) == [x \in DOMAIN f \cup {k} |-> IF x = k THEN v ELSE f[x]]
Empty == [x \in {} |-> None]

NoCloner == [present |-> FALSE, active_clones |-> Empty]
NoneRet == [kind |-> "None"]

\* full_name = f"{org}/{repo_name}" if org else repo_name
FullName(repo_name, org) == IF org # NoStr THEN org \o <<"/">> \o repo_name ELSE repo_name

\* f"{branch or 'default'}"
BranchOrDefault(branch) ==
    IF branch # NoStr THEN branch ELSE <<"d", "e", "f", "a", "u", "l", "t">>

\* clone_key = f"{full_name}#{branch or 'default'}{'#submodules' if recurse_submodules else ''}"
CloneKey(full_name, branch, recurse_submodules) ==
    full_name \o <<"#">> \o BranchOrDefault(branch)
        \o (IF recurse_submodules THEN <<"#", "submodules">> ELSE <<>>)

\* The key _cleanup_clone_impl builds: f"{full_name}#{branch or 'default'}"
CleanupKey(full_name, branch) == full_name \o <<"#">> \o BranchOrDefault(branch)

\* safe_name = full_name.replace("/", "_").replace(".", "_")
SafeName(full_name) ==
    [i \in DOMAIN full_name |-> IF full_name[i] \in {"/", "."} THEN "_" ELSE full_name[i]]

\* clone_dir_name = f"{safe_name}{submodule_suffix}_{timestamp}", below github_temp_dir
ClonePath(full_name, recurse_submodules, timestamp) ==
    [safe_name |-> SafeName(full_name),
     suffix |-> IF recurse_submodules THEN "_submodules" ELSE "",
     ts |-> timestamp]

\* os.path.exists(clone_info.clone_path)
PathExists(d, path) == path \in DOMAIN d

\* shutil.rmtree(path, ignore_errors=True)
Rmtree(d, path) == Restrict(d, DOMAIN d \ {path})

\* RepositoryCloner.cleanup_clone(clone_key_or_path).  The argument is a string that
\* is either a clone key or a directory path: arg = [kind, val].
cleanup_clone(c, d, arg) ==
    LET ac == c.active_clones
        byKey == arg.kind = "key" /\ arg.val \in DOMAIN ac
        byPath == {k \in DOMAIN ac : arg.kind = "path" /\ ac[k].clone_path = arg.val}
        found == byKey \/ byPath # {}
        k == IF byKey THEN arg.val ELSE CHOOSE x \in byPath : TRUE
        ac2 == IF found THEN Restrict(ac, DOMAIN ac \ {k}) ELSE ac
        c2 == [c EXCEPT !.active_clones = ac2]
    IN  IF found /\ PathExists(d, ac[k].clone_path)
          THEN [cloner |-> c2, disk |-> Rmtree(d, ac[k].clone_path), ret |-> TRUE]
        ELSE IF arg.kind = "path" /\ PathExists(d, arg.val)
          THEN [cloner |-> c2, disk |-> Rmtree(d, arg.val), ret |-> TRUE]
        ELSE [cloner |-> c2, disk |-> d, ret |-> FALSE]

\* The loop "for key in to_remove: self.cleanup_clone(key)".
RECURSIVE CleanupKeys(_, _, _)
CleanupKeys(c, d, keys) ==
    IF keys = {} THEN [cloner |-> c, disk |-> d]
    ELSE LET k == CHOOSE x \in keys : TRUE
             r == cleanup_clone(c, d, [kind |-> "key", val |-> k])
         IN  CleanupKeys(r.cloner, r.disk, keys \ {k})

\* RepositoryCloner._cleanup_old_clones at time t.
cleanup_old_clones(c, d, t) ==
    LET cutoff_time == t - c.auto_cleanup_hours
        to_remove == {k \in DOMAIN c.active_clones : c.active_clones[k].clone_time < cutoff_time}
        r == CleanupKeys(c, d, to_remove)
        orphaned == {p \in DOMAIN r.disk : r.disk[p].mtime < cutoff_time}
    IN  [cloner |-> r.cloner, disk |-> Restrict(r.disk, DOMAIN r.disk \ orphaned)]

\* RepositoryCloner.__init__ with the defaults, at time t.
RepositoryCloner(d, t) ==
    cleanup_old_clones([present |-> TRUE,
                        auto_cleanup_hours |-> DefaultAutoCleanupHours,
                        max_clone_size_mb |-> DefaultMaxCloneSizeMb,
                        active_clones |-> Empty], d, t)

\* get_repository_cloner(): the global instance, created on first use.
get_repository_cloner(c, d, t) ==
    IF ~c.present THEN RepositoryCloner(d, t) ELSE [cloner |-> c, disk |-> d]

\* "Check if already cloned and not forcing re-clone"; the first form is the check
\* without its force_reclone test.
UseExistingIgnoringForce(force_reclone, ac, clone_key) == clone_key \in DOMAIN ac
UseExisting(force_reclone, ac, clone_key) == ~force_reclone /\ clone_key \in DOMAIN ac

\* "Check clone size (safety check)": clone_size_mb > self.max_clone_size_mb; the
\* first form compares against twice the limit.
ExceedsLimitAtTwice(clone_size_mb, max_clone_size_mb) == clone_size_mb > 2 * max_clone_size_mb
ExceedsLimit(clone_size_mb, max_clone_size_mb) == clone_size_mb > max_clone_size_mb

\* RepositoryCloner.clone_repository at time t.  git is what the git clone
\* subprocess does and size the size of the directory it leaves.
\* Returns the cloner, the disk, the CloneInfo or None, the number of git clone
\* commands run, and the size _get_directory_size_mb measured (-1: nothing measured).
clone_repository(c, d, t, repo_name, org, branch, recurse_submodules, force_reclone, git, size) ==
    LET full_name == FullName(repo_name, org)
        clone_key == CloneKey(full_name, branch, recurse_submodules)
        ac == c.active_clones
        tracked == UseExisting(force_reclone, ac, clone_key)
        clone_path == ClonePath(full_name, recurse_submodules, t)
        \* "Path doesn't exist, remove from cache"
        ac1 == IF tracked THEN Restrict(ac, DOMAIN ac \ {clone_key}) ELSE ac
        c1 == [c EXCEPT !.active_clones = ac1]
        clone_info == [kind |-> "CloneInfo",
                       full_name |-> full_name,
                       branch |-> IF branch # NoStr THEN branch ELSE <<"m", "a", "i", "n">>,
                       clone_path |-> clone_path,
                       clone_time |-> t,
                       with_submodules |-> recurse_submodules]
        created == Put(d, clone_path, [size |-> size, mtime |-> t])
    IN  IF tracked /\ PathExists(d, ac[clone_key].clone_path)
          THEN [cloner |-> c, disk |-> d, ret |-> ac[clone_key], git |-> 0, cloned_mb |-> -1]
        \* git refuses a destination that exists and is not empty: returncode != 0
        ELSE IF PathExists(d, clone_path) \/ git = "error"
          THEN [cloner |-> c1, disk |-> d, ret |-> NoneRet, git |-> 1, cloned_mb |-> -1]
        \* subprocess.TimeoutExpired: the partial directory stays
        ELSE IF git = "timeout"
          THEN [cloner |-> c1, disk |-> created, ret |-> NoneRet, git |-> 1, cloned_mb |-> -1]
        \* "Check clone size (safety check)"
        ELSE IF ExceedsLimit(size, c.max_clone_size_mb)
          THEN [cloner |-> c1, disk |-> Rmtree(created, clone_path), ret |-> NoneRet, git |-> 1,
                cloned_mb |-> size]
        ELSE [cloner |-> [c1 EXCEPT !.active_clones = Put(ac1, clone_key, clone_info)],
              disk |-> created, ret |-> clone_info, git |-> 1, cloned_mb |-> size]

\* github_functions._ensure_initialized: _get_explorer() raises ValueError when
\* GitHubExplorer finds no token; _initialized is set only when it returns.
ensure_initialized(init, e) ==
    IF init THEN [ok |-> TRUE, init |-> TRUE]
    ELSE IF e.token THEN [ok |-> TRUE, init |-> TRUE]
    ELSE [ok |-> FALSE, init |-> FALSE]

\* github_functions._clone_repository_impl.
clone_repository_impl(init, e, c, d, t, repo_name, org, branch, recurse_submodules, force_reclone, git, size) ==
    LET i == ensure_initialized(init, e)
        g == get_repository_cloner(c, d, t)
        r == clone_repository(g.cloner, g.disk, t, repo_name, org, branch,
                              recurse_submodules, force_reclone, git, size)
    IN  IF ~i.ok
          THEN [init |-> i.init, cloner |-> c, disk |-> d, ret |-> NoneRet, git |-> 0,
                cloned_mb |-> -1]
        ELSE [init |-> i.init, cloner |-> r.cloner, disk |-> r.disk, ret |-> r.ret, git |-> r.git,
              cloned_mb |-> r.cloned_mb]

\* "Check if repository is already cloned": the tracked clone, unless its directory is gone.
CloneAvailable(ac, d, clone_key) ==
    clone_key \in DOMAIN ac /\ PathExists(d, ac[clone_key].clone_path)

\* "Fallback to API if clone fails", else the files of the local clone; the first
\* form never falls back.
FilesNeverFromApi(clone_info) ==
    [kind |-> "files", source |-> "local_clone", clone |-> clone_info]
FilesFrom(clone_info) ==
    [kind |-> "files",
     source |-> IF clone_info = NoneRet THEN "api" ELSE "local_clone",
     clone |-> clone_info]

\* github_functions._get_files_from_clone_impl.  ret.source says where the files
\* come from: the local clone, or _get_repository_files_selective_impl (the API).
get_files_from_clone_impl(init, e, c, d, t, repo_name, org, branch, recurse_submodules, git, size) ==
    LET i == ensure_initialized(init, e)
        g == get_repository_cloner(c, d, t)
        full_name == FullName(repo_name, org)
        clone_key == CloneKey(full_name, branch, recurse_submodules)
        ac == g.cloner.active_clones
        cached == CloneAvailable(ac, g.disk, clone_key)
        r == clone_repository(g.cloner, g.disk, t, repo_name, org, branch,
                              recurse_submodules, FALSE, git, size)
    IN  \* the except branch: "Clone method failed, falling back to API"
        IF ~i.ok
          THEN [init |-> i.init, cloner |-> c, disk |-> d, git |-> 0, cloned_mb |-> -1,
                ret |-> FilesFrom(NoneRet)]
        ELSE IF cached
          THEN [init |-> i.init, cloner |-> g.cloner, disk |-> g.disk, git |-> 0,
                cloned_mb |-> -1, ret |-> FilesFrom(ac[clone_key])]
        ELSE [init |-> i.init, cloner |-> r.cloner, disk |-> r.disk, git |-> r.git,
              cloned_mb |-> r.cloned_mb, ret |-> FilesFrom(r.ret)]

\* github_functions._cleanup_clone_impl.
cleanup_clone_impl(c, d, t, repo_name, org, branch) ==
    LET g == get_repository_cloner(c, d, t)
        full_name == FullName(repo_name, org)
        clone_key == CleanupKey(full_name, branch)
    IN  cleanup_clone(g.cloner, g.disk, [kind |-> "key", val |-> clone_key])

\* github_functions._get_clone_status_impl: the clones get_clone_status lists.
get_clone_status_impl(c, d, t) ==
    LET g == get_repository_cloner(c, d, t)
    IN  [cloner |-> g.cloner, disk |-> g.disk,
         ret |-> [kind |-> "status",
                  active_clones |-> Cardinality(DOMAIN g.cloner.active_clones),
                  clones |-> {g.cloner.active_clones[k].clone_path : k \in DOMAIN g.cloner.active_clones}]]

\* ---- the clone tools as actions ----

NoCall == [op |-> "none"]

\* What a call record keeps of the state before the call: for the repository and
\* branch of the call, the clone tracked without and with submodules (or None) and
\* whether its directory existed.
Pre(repo_name, org, branch) ==
    [sub \in BOOLEAN |->
        LET k == CloneKey(FullName(repo_name, org), branch, sub)
        IN  IF k \in DOMAIN cloner.active_clones
              THEN [info |-> cloner.active_clones[k],
                    exists |-> PathExists(disk, cloner.active_clones[k].clone_path)]
            ELSE [info |-> NoneRet, exists |-> FALSE]]

GhInit ==
    /\ now = 0
    /\ env \in EnvChoices
    /\ ghInit = FALSE
    /\ cloner = NoCloner
    /\ disk = Empty
    /\ last = NoCall
    /\ gitRuns = 0

\* The tool clone_repository(repo_name, org, branch, depth, recurse_submodules, force_reclone).
CloneRepositoryTool ==
    \E repo_name \in RepoNames, org \in Orgs, branch \in Branches,
       recurse_submodules \in BOOLEAN, force_reclone \in BOOLEAN,
       git \in GitOutcomes, size \in CloneSizes :
        \E r \in {clone_repository_impl(ghInit, env, cloner, disk, now, repo_name, org, branch,
                                          recurse_submodules, force_reclone, git, size)} :
            /\ ghInit' = r.init
            /\ cloner' = r.cloner
            /\ disk' = r.disk
            /\ last' = [op |-> "clone_repository", repo_name |-> repo_name, org |-> org,
                        branch |-> branch, recurse_submodules |-> recurse_submodules,
                        force_reclone |-> force_reclone, ret |-> r.ret, git |-> r.git,
                        cloned_mb |-> r.cloned_mb, at |-> now, init |-> r.init,
                        pre |-> Pre(repo_name, org, branch)]
            /\ gitRuns' = gitRuns + r.git
            /\ gitRuns' <= MaxGitRuns
            /\ UNCHANGED <<now, env>>

\* The tool get_files_from_clone(repo_name, file_patterns, org, branch, recurse_submodules).
GetFilesFromCloneTool ==
    \E repo_name \in RepoNames, org \in Orgs, branch \in Branches,
       recurse_submodules \in BOOLEAN, git \in GitOutcomes, size \in CloneSizes :
        \E r \in {get_files_from_clone_impl(ghInit, env, cloner, disk, now, repo_name, org,
                                              branch, recurse_submodules, git, size)} :
            /\ ghInit' = r.init
            /\ cloner' = r.cloner
            /\ disk' = r.disk
            /\ last' = [op |-> "get_files_from_clone", repo_name |-> repo_name, org |-> org,
                        branch |-> branch, recurse_submodules |-> recurse_submodules,
                        ret |-> r.ret, git |-> r.git, cloned_mb |-> r.cloned_mb,
                        at |-> now, init |-> r.init,
                        pre |-> Pre(repo_name, org, branch)]
            /\ gitRuns' = gitRuns + r.git
            /\ gitRuns' <= MaxGitRuns
            /\ UNCHANGED <<now, env>>

\* The tool cleanup_clone(repo_name, org, branch).
CleanupCloneTool ==
    \E repo_name \in RepoNames, org \in Orgs, branch \in Branches :
        \E r \in {cleanup_clone_impl(cloner, disk, now, repo_name, org, branch)} :
            /\ cloner' = r.cloner
            /\ disk' = r.disk
            /\ last' = [op |-> "cleanup_clone", repo_name |-> repo_name, org |-> org,
                        branch |-> branch, ret |-> r.ret, at |-> now,
                        pre |-> Pre(repo_name, org, branch)]
            /\ UNCHANGED <<now, env, ghInit, gitRuns>>

\* The tool get_clone_status().
GetCloneStatusTool ==
    \E r \in {get_clone_status_impl(cloner, disk, now)} :
        /\ cloner' = r.cloner
        /\ disk' = r.disk
        /\ last' = [op |-> "get_clone_status", ret |-> r.ret, at |-> now]
        /\ UNCHANGED <<now, env, ghInit, gitRuns>>

\* Time passes.
Tick ==
    /\ now < MaxTime
    /\ now' = now + TickHours
    /\ UNCHANGED <<env, ghInit, cloner, disk, last, gitRuns>>

\* Something outside the plugin (a temp-directory cleaner) deletes a clone directory.
ExternalDelete ==
    \E p \in DOMAIN disk :
        /\ disk' = Rmtree(disk, p)
        /\ UNCHANGED <<now, env, ghInit, cloner, last, gitRuns>>

\* The hosting process restarts: the module globals are gone, the directories stay.
Restart ==
    /\ cloner.present
    /\ cloner' = NoCloner
    /\ ghInit' = FALSE
    /\ last' = NoCall
    /\ UNCHANGED <<now, env, disk, gitRuns>>

GhNext ==
    \/ CloneRepositoryTool
    \/ GetFilesFromCloneTool
    \/ CleanupCloneTool
    \/ GetCloneStatusTool
    \/ Tick
    \/ ExternalDelete
    \/ Restart

(***************************************************************************)
(*                 github_browser: the claims about the cloner             *)
(***************************************************************************)

IsCloneCall == last.op = "clone_repository"
IsFilesCall == last.op = "get_files_from_clone"
IsCleanupCall == last.op = "cleanup_clone"

\* The key of the last clone_repository / get_files_from_clone call.
LastKey == CloneKey(FullName(last.repo_name, last.org), last.branch, last.recurse_submodules)

\* The clone tracked for the call's key before the call, with its directory present.
LastPre == last.pre[last.recurse_submodules]
HadUsableClone == LastPre.info # NoneRet /\ LastPre.exists

\* The clone the last call handed to its caller (None when it handed none).
Returned ==
    IF IsCloneCall THEN last.ret
    ELSE IF IsFilesCall THEN last.ret.clone
    ELSE NoneRet

\* C3: a clone whose age exceeds auto_cleanup_hours is removed from disk and from
\* active_clones, and no clone_repository or get_files_from_clone call returns it:
\* when a tool call ends, no tracked clone is older than auto_cleanup_hours, and the
\* clone a call returns is not older than that either.
C3_OldClonesAreRemoved ==
    (IsCloneCall \/ IsFilesCall) =>
        /\ (Returned # NoneRet /\ cloner.present) =>
              last.at - Returned.clone_time <= cloner.auto_cleanup_hours
        /\ (last.at = now /\ cloner.present) =>
              \A k \in DOMAIN cloner.active_clones :
                  now - cloner.active_clones[k].clone_time <= cloner.auto_cleanup_hours

\* C6 as stated: with force_reclone=False the tracked clone whose directory exists is
\* returned and no git clone runs; with force_reclone=True a git clone always runs and
\* afterwards the key maps to the new clone.
C6_ForceRecloneAlwaysReplaces ==
    IsCloneCall =>
        /\ (~last.force_reclone /\ HadUsableClone) =>
              (last.ret = LastPre.info /\ last.git = 0)
        /\ last.force_reclone =>
              /\ last.git = 1
              /\ last.ret # NoneRet
              /\ last.ret.clone_time = last.at
              /\ LastKey \in DOMAIN cloner.active_clones
              /\ cloner.active_clones[LastKey] = last.ret

\* C6 amended: once the explorer is initialised, force_reclone=False returns the
\* tracked clone whose directory exists and runs no git clone; force_reclone=True
\* always runs one git clone, and the key maps to the new clone exactly when that
\* clone finished within the size limit; otherwise the call returns None and the key
\* keeps the mapping it had.
C6_ForceRecloneReplacesOnSuccess ==
    IsCloneCall =>
        /\ (~last.force_reclone /\ HadUsableClone) =>
              (last.ret = LastPre.info /\ last.git = 0)
        /\ (last.force_reclone /\ last.init) =>
              /\ last.git = 1
              /\ (last.cloned_mb >= 0 /\ last.cloned_mb <= cloner.max_clone_size_mb) =>
                    /\ last.ret # NoneRet
                    /\ last.ret.clone_time = last.at
                    /\ LastKey \in DOMAIN cloner.active_clones
                    /\ cloner.active_clones[LastKey] = last.ret
              /\ ~(last.cloned_mb >= 0 /\ last.cloned_mb <= cloner.max_clone_size_mb) =>
                    /\ last.ret = NoneRet
                    /\ (LastKey \in DOMAIN cloner.active_clones) = (LastPre.info # NoneRet)
                    /\ LastPre.info # NoneRet => cloner.active_clones[LastKey] = LastPre.info
        /\ ~last.init => (last.git = 0 /\ last.ret = NoneRet)

\* A forced re-clone replaced a tracked clone by a new one.
C6_Witness ==
    /\ IsCloneCall
    /\ last.force_reclone
    /\ LastPre.info # NoneRet
    /\ last.ret # NoneRet
    /\ last.ret # LastPre.info
    /\ cloner.active_clones[LastKey] = last.ret

\* C7: after clone_repository(repo, org, branch) succeeded, with or without
\* recurse_submodules, cleanup_clone(repo, org, branch) returns True, deletes the
\* clone's directory and removes the clone from what get_clone_status lists.
C7_CleanupRemovesClone ==
    IsCleanupCall =>
        \A sub \in BOOLEAN :
            (last.pre[sub].info # NoneRet /\ last.pre[sub].exists) =>
                /\ last.ret = TRUE
                /\ ~PathExists(disk, last.pre[sub].info.clone_path)
                /\ CloneKey(FullName(last.repo_name, last.org), last.branch, sub)
                       \notin DOMAIN cloner.active_clones

\* C8 as stated: get_files_from_clone reuses a tracked clone whose directory exists
\* without running git clone, clones once otherwise, and returns the API result when
\* the clone fails.
C8_ClonesWhenNotAvailable ==
    IsFilesCall =>
        /\ HadUsableClone =>
              (last.git = 0 /\ last.ret.source = "local_clone" /\ last.ret.clone = LastPre.info)
        /\ ~HadUsableClone => last.git = 1
        /\ (last.git = 1 /\ last.ret.clone = NoneRet) => last.ret.source = "api"

\* C8 amended: the same once the explorer is initialised; when the explorer cannot be
\* initialised no git clone runs and the API result is returned.
C8_ClonesWhenInitialised ==
    IsFilesCall =>
        /\ (last.init /\ HadUsableClone) =>
              (last.git = 0 /\ last.ret.source = "local_clone" /\ last.ret.clone = LastPre.info)
        /\ (last.init /\ ~HadUsableClone) => last.git = 1
        /\ ~last.init => (last.git = 0 /\ last.ret.source = "api")
        /\ last.ret.clone = NoneRet => last.ret.source = "api"
        /\ last.ret.clone # NoneRet => last.ret.source = "local_clone"
        /\ (last.git = 1 /\ last.ret.clone # NoneRet) => last.ret.clone.clone_time = last.at

\* A clone was attempted, failed, and the API result came back.
C8_Witness ==
    /\ IsFilesCall
    /\ last.init
    /\ last.git = 1
    /\ last.ret.clone = NoneRet
    /\ last.ret.source = "api"

C10_ClonerFollowsEnvironment ==
    /\ cloner.present =>
          /\ cloner.max_clone_size_mb = env.GITHUB_CLONE_MAX_SIZE_MB
          /\ cloner.auto_cleanup_hours = env.GITHUB_CLONE_AUTO_CLEANUP_HOURS
    /\ env.GITHUB_CLONE_ENABLED = "false" => gitRuns = 0

(***************************************************************************)
(*                 ripgrep_tools: the security configuration               *)
(***************************************************************************)

\* _plugin_config defaults and the caps initialize_ripgrep_plugin applies in remote mode.
DefaultMaxResults == 100
DefaultTimeoutSeconds == 30
RemoteMaxResults == 100
RemoteMaxTimeout == 30

\* A path is the sequence of its components below "/"; it may contain "..".
RgTenants == {"t1", "t2"}
TenantWorkspace(tenant_id) == <<"workspace", tenant_id>>
Cwd == <<"home", "proj">>

\* The files of the file system the tools run on.
Files ==
    { <<"workspace", "t1", "src", "a.py">>,
      <<"workspace", "t1", "src", "d.py">>,
      <<"workspace", "t2", "b.py">>,
      <<"home", "proj", "c.py">>,
      <<"etc", "passwd">> }

\* Lines of every file of the file system.
FileLines == 2

\* Exceptions: the type and the message; str(e) keeps the message only.
NoExc == [type |-> "none", msg |-> ""]
Exc(type, msg) == [type |-> type, msg |-> msg]
Str(e) == e.msg
NotInitialized == Exc("RuntimeError", "Plugin has not been initialized. Call initialize_ripgrep_plugin() first.")
NoError == "None"

\* Path(p).resolve(): ".." drops the component before it, "." is dropped.
RECURSIVE Resolve(_)
Resolve(p) ==
    IF p = <<>> THEN <<>>
    ELSE LET r == Resolve(SubSeq(p, 1, Len(p) - 1))
             c == p[Len(p)]
         IN  IF c = ".." THEN (IF r = <<>> THEN <<>> ELSE SubSeq(r, 1, Len(r) - 1))
             ELSE IF c = "." THEN r
             ELSE Append(r, c)

\* path_obj.relative_to(allowed_path) does not raise ValueError
IsRelativeTo(path, allowed_path) ==
    /\ Len(allowed_path) <= Len(path)
    /\ SubSeq(path, 1, Len(allowed_path)) = allowed_path

\* [str(Path(p).resolve()) for p in paths]
ResolveAll(q) == [i \in DOMAIN q |-> Resolve(q[i])]
Min(a, b) == IF a <= b THEN a ELSE b

\* The module-level _plugin_config before any initialisation.
PluginConfig0 ==
    [initialized |-> FALSE, mode |-> "local", allowed_paths |-> <<>>,
     max_results |-> DefaultMaxResults, max_filesize |-> "10M",
     timeout_seconds |-> DefaultTimeoutSeconds, tenant_id |-> None]

\* An optional argument that was not passed.
NoPaths == [given |-> FALSE, list |-> <<>>]
Given(list) == [given |-> TRUE, list |-> list]
NoPath == [given |-> FALSE, path |-> <<>>]
GivenPath(path) == [given |-> TRUE, path |-> path]

\* initialize_ripgrep_plugin followed by initialize_security_config.  exists tells
\* whether the allowed paths exist (local mode checks, remote mode creates them).
initialize_ripgrep_plugin(cfg, mode, allowed_paths, workspace_root, tenant_id, max_results, timeout_seconds, exists) ==
    LET noRoot == ~allowed_paths.given /\ mode # "local" /\ tenant_id = None
                      /\ ~workspace_root.given
        paths == IF allowed_paths.given THEN allowed_paths.list
                 ELSE IF mode = "local"
                   THEN (IF workspace_root.given THEN <<workspace_root.path>> ELSE <<Cwd>>)
                 ELSE IF tenant_id # None THEN <<TenantWorkspace(tenant_id)>>
                 ELSE <<workspace_root.path>>
        remote == mode = "remote"
    IN  IF noRoot
          THEN [config |-> cfg,
                raised |-> Exc("ValueError", "Remote mode requires either tenant_id or explicit workspace_root")]
        ELSE IF mode = "local" /\ paths # <<>> /\ ~exists
          THEN [config |-> cfg, raised |-> Exc("OSError", "Allowed path does not exist")]
        ELSE [config |->
                 [initialized |-> TRUE, mode |-> mode,
                  allowed_paths |-> ResolveAll(paths),
                  max_results |-> IF remote THEN Min(max_results, RemoteMaxResults) ELSE max_results,
                  max_filesize |-> IF remote THEN "5M" ELSE "10M",
                  timeout_seconds |-> IF remote THEN Min(timeout_seconds, RemoteMaxTimeout)
                                      ELSE timeout_seconds,
                  tenant_id |-> tenant_id],
              raised |-> NoExc]

\* _check_initialized
check_initialized(cfg) == IF cfg.initialized THEN NoExc ELSE NotInitialized

\* Whether some allowed path contains the resolved path.
IsAllowed(cfg, path) ==
    \E i \in DOMAIN cfg.allowed_paths :
        IsRelativeTo(Resolve(path), Resolve(cfg.allowed_paths[i]))

\* _validate_paths: the exception it raises (NoExc when none) and the paths it returns.
validate_paths(cfg, paths) ==
    IF check_initialized(cfg) # NoExc
      THEN [exc |-> check_initialized(cfg), paths |-> <<>>]
    ELSE IF ~paths.given
      THEN [exc |-> NoExc, paths |-> cfg.allowed_paths]
    ELSE IF \E i \in DOMAIN paths.list : ~IsAllowed(cfg, paths.list[i])
      THEN [exc |-> Exc("PermissionError", "Path is not within allowed search boundaries"),
            paths |-> <<>>]
    ELSE [exc |-> NoExc, paths |-> ResolveAll(paths.list)]

\* Patterns: blank, harmless, and one the remote mode treats as dangerous.
Blank == ""
Dangerous == {"secret"}

\* _should_block_pattern: the exception it raises and its verdict.
should_block_pattern(cfg, pattern) ==
    [exc |-> check_initialized(cfg),
     block |-> cfg.initialized /\ cfg.mode = "remote" /\ pattern \in Dangerous]

\* _run_ripgrep_command: the subprocess runs in allowed_paths[0]; it may finish, hit
\* the timeout or fail to start.  rg lists files below the paths it is given.
RgOutcomes == {"ok", "timeout", "fail"}
Command(cfg, paths) ==
    [paths |-> paths,
     cwd |-> IF cfg.allowed_paths # <<>> THEN GivenPath(cfg.allowed_paths[1]) ELSE NoPath]
run_ripgrep_command(cfg, paths, outcome) ==
    [command |-> Command(cfg, paths),
     exc |-> IF outcome = "timeout" THEN Exc("RuntimeError", "Search timed out")
             ELSE IF outcome = "fail" THEN Exc("RuntimeError", "Failed to execute ripgrep")
             ELSE NoExc,
     files |-> IF outcome = "ok"
                 THEN {f \in Files : \E i \in DOMAIN paths : IsRelativeTo(f, paths[i])}
               ELSE {}]

\* _build_ripgrep_command passes "-m max_count" when max_count is truthy: ripgrep then
\* stops after max_count matching lines in EACH file.  _parse_ripgrep_json_output
\* turns the output into one match per (file, line).  Every line of a file matches.
MatchLines(max_count) ==
    IF max_count > 0 THEN 1..Min(max_count, FileLines) ELSE 1..FileLines
parse_ripgrep_json_output(files, max_count) == files \X MatchLines(max_count)

\* What a tool hands to its caller: the exception that escapes it, the "error" field
\* of the dictionary it returns, what it did on the way, and the number of matches
\* (or files) in its results.
Failed(e, commands) ==
    [raised |-> NoExc, error |-> Str(e), commands |-> commands, reads |-> {}, files |-> {},
     count |-> 0]
Succeeded(commands, reads, files) ==
    [raised |-> NoExc, error |-> NoError, commands |-> commands, reads |-> reads, files |-> files,
     count |-> 0]

\* An optional max_results argument.
NoMax == [given |-> FALSE, value |-> 0]
GivenMax(n) == [given |-> TRUE, value |-> n]

\* effective_max_results = min(max_results or cfg, cfg)
EffectiveMaxResults(cfg, max_results) ==
    Min(IF max_results.given /\ max_results.value # 0 THEN max_results.value
        ELSE cfg.max_results,
        cfg.max_results)

\* matches[:n] when len(matches) > n
Truncated(len, n) == IF len > n THEN n ELSE len

\* search_pattern_impl
search_pattern_impl(cfg, pattern, paths, max_results, outcome) ==
    LET b == should_block_pattern(cfg, pattern)
        v == validate_paths(cfg, paths)
        r == run_ripgrep_command(cfg, v.paths, outcome)
        effective_max_results == EffectiveMaxResults(cfg, max_results)
        matches == parse_ripgrep_json_output(r.files, effective_max_results)
    IN  IF pattern = Blank THEN Failed(Exc("ValueError", "Search pattern cannot be empty"), <<>>)
        ELSE IF b.exc # NoExc THEN Failed(b.exc, <<>>)
        ELSE IF b.block
          THEN Failed(Exc("ValueError", "Search pattern contains blocked content"), <<>>)
        ELSE IF v.exc # NoExc THEN Failed(v.exc, <<>>)
        ELSE IF r.exc # NoExc THEN Failed(r.exc, <<r.command>>)
        ELSE [Succeeded(<<r.command>>, {}, r.files)
                 EXCEPT !.count = Truncated(Cardinality(matches), effective_max_results)]

\* The regular expressions find_symbol_impl tries for a symbol type.
SymbolTypes == {"any", "class"}
SymbolPatterns(symbol_type) == IF symbol_type = "class" THEN 3 ELSE 1

\* find_symbol_impl: one ripgrep run per pattern with max_count = the configured
\* max_results; the first failing run ends the call.  The matches of all runs are
\* joined and de-duplicated by (file, line); the list is not shortened.
find_symbol_impl(cfg, symbol, symbol_type, paths, outcome) ==
    LET v == validate_paths(cfg, paths)
        r == run_ripgrep_command(cfg, v.paths, outcome)
        n == SymbolPatterns(symbol_type)
        unique_matches ==
            UNION {parse_ripgrep_json_output(r.files, cfg.max_results) : i \in 1..n}
    IN  IF symbol = Blank THEN Failed(Exc("ValueError", "Symbol name cannot be empty"), <<>>)
        ELSE IF v.exc # NoExc THEN Failed(v.exc, <<>>)
        ELSE IF r.exc # NoExc THEN Failed(r.exc, <<r.command>>)
        ELSE [Succeeded([i \in 1..n |-> r.command], {}, r.files)
                 EXCEPT !.count = Cardinality(unique_matches)]

\* search_files_impl: a file listing for name_pattern, a content search for
\* content_pattern; either may be absent (Blank).
search_files_impl(cfg, name_pattern, content_pattern, paths, outcome) ==
    LET v == validate_paths(cfg, paths)
        r == run_ripgrep_command(cfg, v.paths, outcome)
        n == (IF name_pattern # Blank THEN 1 ELSE 0) + (IF content_pattern # Blank THEN 1 ELSE 0)
    IN  IF name_pattern = Blank /\ content_pattern = Blank
          THEN Failed(Exc("ValueError", "Either name_pattern or content_pattern must be provided"), <<>>)
        ELSE IF v.exc # NoExc THEN Failed(v.exc, <<>>)
        ELSE IF r.exc # NoExc THEN Failed(r.exc, <<r.command>>)
        ELSE [Succeeded([i \in 1..n |-> r.command], {}, r.files)
                 EXCEPT !.count = Truncated(Cardinality(r.files), cfg.max_results)]

\* get_file_context_impl: validates [file_path], then opens the resolved file.
get_file_context_impl(cfg, file_path, line_number) ==
    LET v == validate_paths(cfg, Given(<<file_path>>))
        actual_file_path == v.paths[1]
    IN  IF line_number < 1 THEN Failed(Exc("ValueError", "Line number must be >= 1"), <<>>)
        ELSE IF v.exc # NoExc THEN Failed(v.exc, <<>>)
        ELSE IF actual_file_path \notin Files
          THEN Failed(Exc("FileNotFoundError", "File not found"), <<>>)
        ELSE IF line_number > FileLines
          THEN [Failed(Exc("ValueError", "Line number exceeds file length"), <<>>)
                   EXCEPT !.reads = {actual_file_path}]
        ELSE Succeeded(<<>>, {actual_file_path}, {actual_file_path})

\* analyze_codebase_impl: lists the files below the validated paths and, with
\* include_metrics, opens each of them to count its lines.
analyze_codebase_impl(cfg, paths, include_metrics, outcome) ==
    LET v == validate_paths(cfg, paths)
        r == run_ripgrep_command(cfg, v.paths, outcome)
    IN  IF v.exc # NoExc THEN Failed(v.exc, <<>>)
        ELSE IF r.exc # NoExc THEN Failed(r.exc, <<r.command>>)
        ELSE Succeeded(<<r.command>>, IF include_metrics THEN r.files ELSE {}, r.files)

\* ---- the arguments the tools are called with ----
PathChoices ==
    { <<"workspace", "t1">>,
      <<"workspace", "t1", "src">>,
      <<"workspace", "t1", "..", "t2">>,
      <<"etc">> }
PathsArgs ==
    {NoPaths} \cup {Given(<<p>>) : p \in PathChoices}
              \cup {Given(<<(<<"workspace", "t1">>), (<<"etc">>)>>)}
FileChoices == Files \cup { <<"workspace", "t1", "..", "t2", "b.py">>,
                            <<"workspace", "t1", "missing.py">> }
PatternChoices == {Blank, "main", "secret"}
LineNumbers == {0, 1, FileLines + 1}
MaxResultsChoices == {1, 200}
RequestedMaxResults == {NoMax, GivenMax(0), GivenMax(1), GivenMax(3)}
InitArgs ==
    [mode : {"local", "remote"},
     allowed_paths : {NoPaths, Given(<<(<<"workspace", "t1">>)>>)},
     workspace_root : {NoPath, GivenPath(<<"workspace", "t1", "src">>)},
     tenant_id : {None} \cup RgTenants,
     max_results : MaxResultsChoices,
     exists : BOOLEAN]

NoRgCall == [op |-> "none"]
RgInit == config = PluginConfig0 /\ rgLast = NoRgCall

\* An initialisation that marks the plugin initialised before it validates.
InitializePluginMarkingFirst ==
    \E a \in InitArgs :
        \E r \in {initialize_ripgrep_plugin(config, a.mode, a.allowed_paths, a.workspace_root,
                                            a.tenant_id, a.max_results, DefaultTimeoutSeconds,
                                            a.exists)} :
            /\ config' = [r.config EXCEPT !.initialized = TRUE]
            /\ rgLast' = [op |-> "initialize_ripgrep_plugin", pre |-> config, paths |-> NoPaths,
                          args |-> a,
                          res |-> [Failed(NoExc, <<>>) EXCEPT !.raised = r.raised,
                                                              !.error = NoError]]

\* initialize_ripgrep_plugin(...)
InitializePlugin ==
    \E a \in InitArgs :
        \E r \in {initialize_ripgrep_plugin(config, a.mode, a.allowed_paths, a.workspace_root,
                                            a.tenant_id, a.max_results, DefaultTimeoutSeconds,
                                            a.exists)} :
            /\ config' = r.config
            /\ rgLast' = [op |-> "initialize_ripgrep_plugin", pre |-> config, paths |-> NoPaths,
                          args |-> a,
                          res |-> [Failed(NoExc, <<>>) EXCEPT !.raised = r.raised,
                                                              !.error = NoError]]

\* search_pattern(pattern, paths, max_results)
SearchPattern ==
    \E pattern \in PatternChoices, paths \in PathsArgs, max_results \in RequestedMaxResults,
       outcome \in RgOutcomes :
        /\ rgLast' = [op |-> "search_pattern", pre |-> config, paths |-> paths,
                      max_results |-> max_results,
                      res |-> search_pattern_impl(config, pattern, paths, max_results, outcome)]
        /\ UNCHANGED config

\* find_symbol(symbol, symbol_type, paths)
FindSymbol ==
    \E symbol \in {Blank, "main"}, symbol_type \in SymbolTypes, paths \in PathsArgs,
       outcome \in RgOutcomes :
        /\ rgLast' = [op |-> "find_symbol", pre |-> config, paths |-> paths,
                      res |-> find_symbol_impl(config, symbol, symbol_type, paths, outcome)]
        /\ UNCHANGED config

\* search_files(name_pattern, content_pattern, paths)
SearchFiles ==
    \E name_pattern \in {Blank, "*.py"}, content_pattern \in {Blank, "main"},
       paths \in PathsArgs, outcome \in RgOutcomes :
        /\ rgLast' = [op |-> "search_files", pre |-> config, paths |-> paths,
                      res |-> search_files_impl(config, name_pattern, content_pattern, paths, outcome)]
        /\ UNCHANGED config

\* get_file_context(file_path, line_number)
GetFileContext ==
    \E file_path \in FileChoices, line_number \in LineNumbers :
        /\ rgLast' = [op |-> "get_file_context", pre |-> config, paths |-> Given(<<file_path>>),
                      res |-> get_file_context_impl(config, file_path, line_number)]
        /\ UNCHANGED config

\* analyze_codebase(paths, include_metrics)
AnalyzeCodebase ==
    \E paths \in PathsArgs, include_metrics \in BOOLEAN, outcome \in RgOutcomes :
        /\ rgLast' = [op |-> "analyze_codebase", pre |-> config, paths |-> paths,
                      res |-> analyze_codebase_impl(config, paths, include_metrics, outcome)]
        /\ UNCHANGED config

RgNext ==
    \/ InitializePlugin
    \/ SearchPattern
    \/ FindSymbol
    \/ SearchFiles
    \/ GetFileContext
    \/ AnalyzeCodebase

(***************************************************************************)
(*                     ripgrep_tools: the claims                           *)
(***************************************************************************)

IsRgTool == rgLast.op \notin {"none", "initialize_ripgrep_plugin"}

\* The call passed a path that resolves outside every allowed path.
HasOutsidePath ==
    /\ rgLast.paths.given
    /\ \E i \in DOMAIN rgLast.paths.list : ~IsAllowed(rgLast.pre, rgLast.paths.list[i])

\* C2: a tool call (on an initialised plugin) whose paths include one that resolves
\* outside every allowed path is rejected with a PermissionError and runs no ripgrep
\* command and reads no file; an accepted call searches only paths inside the allowed
\* paths, and every file it returns lies within an allowed path.
C2_OutsidePathsRejected ==
    (IsRgTool /\ rgLast.pre.initialized) =>
        /\ HasOutsidePath =>
              /\ rgLast.res.raised.type = "PermissionError"
              /\ rgLast.res.commands = <<>>
              /\ rgLast.res.reads = {}
        /\ rgLast.res.error = NoError =>
              /\ \A i \in DOMAIN rgLast.res.commands :
                    \A j \in DOMAIN rgLast.res.commands[i].paths :
                        IsAllowed(rgLast.pre, rgLast.res.commands[i].paths[j])
              /\ \A f \in rgLast.res.files \cup rgLast.res.reads : IsAllowed(rgLast.pre, f)

\* C4: every tool called before initialize_ripgrep_plugin has completed fails with the
\* 'Plugin has not been initialized' RuntimeError, whatever its other arguments are,
\* and runs no ripgrep command and reads no file.
C4_UninitializedFails ==
    (IsRgTool /\ ~rgLast.pre.initialized) =>
        /\ rgLast.res.raised = NotInitialized
        /\ rgLast.res.commands = <<>>
        /\ rgLast.res.reads = {}

IsSearchTool == rgLast.op \in {"search_pattern", "find_symbol", "search_files"}

\* C11: search_pattern returns at most min(requested max_results, configured
\* max_results) matches, and none of search_pattern, find_symbol and search_files
\* returns more results than the configured max_results.
C11_ResultsWithinLimits ==
    /\ (rgLast.op = "search_pattern" /\ rgLast.max_results.given) =>
          rgLast.res.count <= Min(rgLast.max_results.value, rgLast.pre.max_results)
    /\ IsSearchTool => rgLast.res.count <= rgLast.pre.max_results

IsInitCall == rgLast.op = "initialize_ripgrep_plugin"

\* The call named no root in remote mode / named a missing allowed path in local mode.
RemoteWithoutRoot ==
    /\ rgLast.args.mode = "remote"
    /\ rgLast.args.tenant_id = None
    /\ ~rgLast.args.workspace_root.given
    /\ ~rgLast.args.allowed_paths.given
LocalPathMissing == rgLast.args.mode = "local" /\ ~rgLast.args.exists

\* C13: initialize_ripgrep_plugin raises ValueError in remote mode when none of
\* tenant_id, workspace_root and allowed_paths is given, and OSError in local mode when
\* an allowed path does not exist; an initialisation that raises leaves the stored
\* configuration, the initialised flag included, as it was, and one that does not
\* raise leaves the plugin initialised.
C13_FailedInitKeepsConfig ==
    IsInitCall =>
        /\ RemoteWithoutRoot => rgLast.res.raised.type = "ValueError"
        /\ LocalPathMissing => rgLast.res.raised.type = "OSError"
        /\ rgLast.res.raised # NoExc => config = rgLast.pre
        /\ rgLast.res.raised = NoExc => config.initialized

\* A re-initialisation of an initialised plugin failed.
C13_Witness ==
    /\ IsInitCall
    /\ rgLast.pre.initialized
    /\ rgLast.res.raised.type \in {"ValueError", "OSError"}
    /\ config = rgLast.pre

(***************************************************************************)
(*     ripgrep_tools: tenant requests on the shared global configuration   *)
(***************************************************************************)

\* MockMCPServer.handle_tenant_request(tenant_id, query), one request per tenant at a
\* time, each on a thread of its own: it re-initialises the plugin for its tenant and
\* then calls search_pattern(query).  Every step reads the module-level _plugin_config
\* afresh, so the steps of two requests interleave on it.
TenantMaxResults == 50
QueryChoices == {"main", "secret"}

IdleReq == [pc |-> "idle", query |-> Blank, validated |-> <<>>, res |-> Failed(NoExc, <<>>)]

TenantInit == config = PluginConfig0 /\ reqs = [t \in RgTenants |-> IdleReq]

\* initialize_ripgrep_plugin(mode="remote", tenant_id=tenant_id, max_results=50)
TenantInitialize(t) ==
    /\ reqs[t].pc = "idle"
    /\ \E query \in QueryChoices :
          reqs' = [reqs EXCEPT ![t] = [IdleReq EXCEPT !.pc = "search", !.query = query]]
    /\ config' = initialize_ripgrep_plugin(config, "remote", NoPaths, NoPath, t,
                                           TenantMaxResults, DefaultTimeoutSeconds, TRUE).config

\* search_pattern_impl up to the built command: the pattern checks and _validate_paths.
TenantValidate(t) ==
    /\ reqs[t].pc = "search"
    /\ LET r == search_pattern_impl(config, reqs[t].query, NoPaths, NoMax, "ok")
           v == validate_paths(config, NoPaths)
       IN  reqs' = [reqs EXCEPT ![t] =
                       IF r.error # NoError
                         THEN [@ EXCEPT !.pc = "done", !.res = r]
                       ELSE [@ EXCEPT !.pc = "run", !.validated = v.paths]]
    /\ UNCHANGED config

\* _run_ripgrep_command on the validated paths, in the cwd the configuration names now.
TenantRun(t) ==
    /\ reqs[t].pc = "run"
    /\ \E outcome \in RgOutcomes :
          LET r == run_ripgrep_command(config, reqs[t].validated, outcome)
          IN  reqs' = [reqs EXCEPT ![t] =
                          [@ EXCEPT !.pc = "done",
                                    !.res = IF r.exc # NoExc THEN Failed(r.exc, <<r.command>>)
                                            ELSE Succeeded(<<r.command>>, {}, r.files)]]
    /\ UNCHANGED config

\* The request returns; the tenant may send the next one.
TenantReturn(t) ==
    /\ reqs[t].pc = "done"
    /\ reqs' = [reqs EXCEPT ![t] = IdleReq]
    /\ UNCHANGED config

TenantNext ==
    \E t \in RgTenants :
        \/ TenantInitialize(t)
        \/ TenantValidate(t)
        \/ TenantRun(t)
        \/ TenantReturn(t)

\* C5: in remote multi-tenant use a search issued for tenant T after
\* initialize_ripgrep_plugin(mode='remote', tenant_id=T) validates its paths against,
\* and runs inside, /workspace/T only, also when another tenant's request interleaves.
C5_TenantIsolation ==
    \A t \in RgTenants :
        /\ reqs[t].pc = "run" => reqs[t].validated = <<TenantWorkspace(t)>>
        /\ reqs[t].pc = "done" =>
              /\ \A i \in DOMAIN reqs[t].res.commands :
                    /\ reqs[t].res.commands[i].paths = <<TenantWorkspace(t)>>
                    /\ reqs[t].res.commands[i].cwd = GivenPath(TenantWorkspace(t))
              /\ \A f \in reqs[t].res.files : IsRelativeTo(f, TenantWorkspace(t))

(***************************************************************************)
(*                spotify_controller: the global controller                *)
(***************************************************************************)

\* The environment: whether SPOTIFY_CLIENT_ID and SPOTIFY_CLIENT_SECRET are set,
\* whether the token cache is the environment (production) or a file, and whether
\* that cache holds a token.
SpEnvs == [creds : BOOLEAN, production : BOOLEAN, token : BOOLEAN]

\* _spotify_controller: None, or a SpotifyController whose client sp may be None.
NoController == [present |-> FALSE, sp |-> FALSE]

\* What the Spotify Web API does during a call: answers, rejects an expired token,
\* or is unreachable.
ApiStates == {"ok", "expired", "down"}

\* SpotifyController._initialize_client: a cached token gives a client, otherwise the
\* OAuth flow runs; every exception ends in sp = None.
initialize_client(ctl, e, oauth_ok) == [ctl EXCEPT !.sp = e.token \/ oauth_ok]

\* spotify_functions._get_controller: the exception it raises and the controller.
get_controller(ctl, e, oauth_ok) ==
    IF ctl.present THEN [exc |-> NoExc, ctl |-> ctl]
    ELSE IF ~e.creds
      THEN [exc |-> Exc("ValueError", "SPOTIFY_CLIENT_ID and SPOTIFY_CLIENT_SECRET environment variables are required"),
            ctl |-> ctl]
    ELSE IF e.production
      THEN [exc |-> NoExc, ctl |-> [present |-> TRUE, sp |-> TRUE]]
    ELSE [exc |-> NoExc,
          ctl |-> initialize_client([present |-> TRUE, sp |-> FALSE], e, oauth_ok)]

\* spotify_functions._ensure_initialized
ensure_initialized_spotify(init, ctl, e, oauth_ok) ==
    IF init THEN [exc |-> NoExc, init |-> TRUE, ctl |-> ctl]
    ELSE LET g == get_controller(ctl, e, oauth_ok)
         IN  [exc |-> g.exc, init |-> g.exc = NoExc, ctl |-> g.ctl]

\* SpotifyController.is_authenticated: current_user() answers, or the cached token
\* is expired and its refresh succeeds.
is_authenticated(ctl, e, api) ==
    /\ ctl.sp
    /\ \/ api = "ok"
       \/ api = "expired" /\ e.token

\* SpotifyController._ensure_authenticated
ensure_authenticated(ctl, e, api, oauth_ok) ==
    IF is_authenticated(ctl, e, api) THEN [exc |-> NoExc, ctl |-> ctl]
    ELSE LET c == initialize_client(ctl, e, oauth_ok)
         IN  IF is_authenticated(c, e, api) THEN [exc |-> NoExc, ctl |-> c]
             ELSE [exc |-> Exc("ValueError", "Spotify authentication failed"), ctl |-> c]

\* The tools of the plugin; two of their controller methods call _ensure_authenticated
\* before their try block, the others make their API call inside it.
SpotifyTools ==
    {"get_current_playback", "search_spotify", "play_track", "play_playlist",
     "pause_playback", "resume_playback", "next_track", "previous_track", "set_volume",
     "get_user_playlists", "get_available_devices", "transfer_playback"}
NeedsAuth(tool) == tool \in {"get_current_playback", "get_available_devices"}

\* A controller method: what escapes it, what it returns, and the controller after it.
controller_method(tool, ctl, e, api, oauth_ok) ==
    LET a == ensure_authenticated(ctl, e, api, oauth_ok)
    IN  IF NeedsAuth(tool)
          THEN IF a.exc # NoExc THEN [exc |-> a.exc, ret |-> "none", ctl |-> a.ctl]
               ELSE [exc |-> NoExc, ret |-> IF api = "down" THEN "falsy" ELSE "value",
                     ctl |-> a.ctl]
        ELSE [exc |-> NoExc,
              ret |-> IF ctl.sp /\ api = "ok" THEN "value" ELSE "falsy",
              ctl |-> ctl]

\* A tool: _ensure_initialized(); controller = _get_controller(); return controller.X(...)
spotify_tool(tool, init, ctl, e, api, oauth_ok) ==
    LET i == ensure_initialized_spotify(init, ctl, e, oauth_ok)
        g == get_controller(i.ctl, e, oauth_ok)
        m == controller_method(tool, g.ctl, e, api, oauth_ok)
    IN  IF i.exc # NoExc THEN [raised |-> i.exc, ret |-> "none", init |-> i.init, ctl |-> i.ctl]
        ELSE IF g.exc # NoExc
          THEN [raised |-> g.exc, ret |-> "none", init |-> i.init, ctl |-> g.ctl]
        ELSE [raised |-> m.exc, ret |-> m.ret, init |-> i.init, ctl |-> m.ctl]

NoSpCall == [op |-> "none", raised |-> NoExc, ret |-> "none"]

SpInit ==
    /\ spEnv \in SpEnvs
    /\ spInit = FALSE
    /\ spCtl = NoController
    /\ spLast = NoSpCall

\* Any of the twelve tools is called.
SpotifyTool ==
    \E tool \in SpotifyTools, api \in ApiStates, oauth_ok \in BOOLEAN :
        \E r \in {spotify_tool(tool, spInit, spCtl, spEnv, api, oauth_ok)} :
            /\ spInit' = r.init
            /\ spCtl' = r.ctl
            /\ spLast' = [op |-> tool, raised |-> r.raised, ret |-> r.ret]
            /\ UNCHANGED spEnv

\* initialize_plugin(): forget the controller, then _ensure_initialized().
SpotifyInitializePlugin ==
    \E oauth_ok \in BOOLEAN :
        \E r \in {ensure_initialized_spotify(FALSE, NoController, spEnv, oauth_ok)} :
            /\ spInit' = r.init
            /\ spCtl' = r.ctl
            /\ spLast' = [op |-> "initialize_plugin", raised |-> r.exc, ret |-> "none"]
            /\ UNCHANGED spEnv

\* reset_controller()
SpotifyResetController ==
    /\ spCtl' = NoController
    /\ spLast' = [op |-> "reset_controller", raised |-> NoExc, ret |-> "none"]
    /\ UNCHANGED <<spEnv, spInit>>

\* The environment changes: credentials are set or removed, the token cache changes.
SpotifySetEnvironment ==
    /\ spEnv' \in SpEnvs
    /\ spEnv' # spEnv
    /\ UNCHANGED <<spInit, spCtl, spLast>>

SpNext ==
    \/ SpotifyTool
    \/ SpotifyInitializePlugin
    \/ SpotifyResetController
    \/ SpotifySetEnvironment

\* C1: every public tool returns an empty, falsy or error-flagged result rather than
\* propagating an exception: no tool call raises to its caller when the external API,
\* the subprocess or the credentials fail.
C1_ToolsNeverRaise ==
    /\ spLast.op \in SpotifyTools => spLast.raised = NoExc
    /\ IsRgTool => rgLast.res.raised = NoExc

(***************************************************************************)
(*        External calls: subprocesses and HTTP requests, and their        *)
(*        per-call timeouts                                                *)
(***************************************************************************)

\* The timeouts, in seconds, the code passes to its external calls.
GitCloneTimeout == 300
GitCloneSubmodulesTimeout == 600
SubmoduleUpdateTimeout == 300
DiscordTimeout == 10
FollowRedirectTimeout == 10

\* The longest a call is watched waiting; above every timeout.
MaxWaited == 601

\* A timeout argument that was not passed / was passed.
NoTimeout == [given |-> FALSE, value |-> 0]
Timeout(seconds) == [given |-> TRUE, value |-> seconds]

\* The external calls and the calls that run a child process.
ExternalCalls ==
    {"ripgrep", "git_clone", "git_clone_submodules", "git_submodule_update",
     "git_branch_show_current", "slack_post", "discord_post",
     "github_app_installations_get", "github_app_access_token_post", "follow_redirect"}
Subprocesses ==
    {"ripgrep", "git_clone", "git_clone_submodules", "git_submodule_update",
     "git_branch_show_current"}

\* The timeout each call site passes.
CallTimeout(name, cfg) ==
    CASE name = "ripgrep" -> Timeout(cfg.timeout_seconds)
      [] name = "git_clone" -> Timeout(GitCloneTimeout)
      [] name = "git_clone_submodules" -> Timeout(GitCloneSubmodulesTimeout)
      [] name = "git_submodule_update" -> Timeout(SubmoduleUpdateTimeout)
      [] name = "git_branch_show_current" -> NoTimeout
      [] name = "slack_post" -> NoTimeout
      [] name = "discord_post" -> Timeout(DiscordTimeout)
      [] name = "github_app_installations_get" -> NoTimeout
      [] name = "github_app_access_token_post" -> NoTimeout
      [] name = "follow_redirect" -> Timeout(FollowRedirectTimeout)

NoExtCall ==
    [name |-> None, timeout |-> NoTimeout, phase |-> "idle", waited |-> 0,
     timed_out |-> FALSE, terminated |-> FALSE, result |-> None]
ExtInit == ext = NoExtCall

\* A tool reaches its external call and starts to wait for it.
ExtStart ==
    /\ ext.phase = "idle"
    /\ \E name \in ExternalCalls :
          ext' = [NoExtCall EXCEPT !.name = name, !.timeout = CallTimeout(name, config),
                                   !.phase = "waiting"]
    /\ UNCHANGED config

\* A second passes without an answer.
ExtWait ==
    /\ ext.phase = "waiting"
    /\ ext.waited < MaxWaited
    /\ ext.timeout.given => ext.waited < ext.timeout.value
    /\ ext' = [ext EXCEPT !.waited = @ + 1]
    /\ UNCHANGED config

\* The child process exits / the server answers.
ExtAnswer ==
    /\ ext.phase = "waiting"
    /\ \E result \in {"ok", "error"} : ext' = [ext EXCEPT !.phase = "returned", !.result = result]
    /\ UNCHANGED config

\* The timeout expires: asyncio.wait_for raises TimeoutError and the ripgrep process is
\* terminated, subprocess.run kills the child and raises TimeoutExpired, requests raises
\* Timeout; each caller turns the exception into an error result.
ExtTimeout ==
    /\ ext.phase = "waiting"
    /\ ext.timeout.given
    /\ ext.waited = ext.timeout.value
    /\ ext' = [ext EXCEPT !.phase = "returned", !.result = "error", !.timed_out = TRUE,
                          !.terminated = ext.name \in Subprocesses]
    /\ UNCHANGED config

\* The tool call returns to its caller.
ExtReturn ==
    /\ ext.phase = "returned"
    /\ ext' = NoExtCall
    /\ UNCHANGED config

ExtNext ==
    \/ ExtStart
    \/ ExtWait
    \/ ExtAnswer
    \/ ExtTimeout
    \/ ExtReturn

\* C12: every external HTTP or subprocess call has a per-call timeout, so a tool call
\* never waits for its external call longer than that timeout; a ripgrep search that
\* reaches timeout_seconds has its subprocess terminated and returns an error result.
C12_EveryCallHasTimeout ==
    /\ ext.phase = "waiting" =>
          (ext.timeout.given /\ ext.waited <= ext.timeout.value)
    /\ (ext.phase = "returned" /\ ext.name = "ripgrep" /\ ext.timed_out) =>
          (ext.terminated /\ ext.result = "error")

(***************************************************************************)
(*              github_browser: get_repository_tree                        *)
(***************************************************************************)

\* A path is the sequence of its characters.  item.path.split('/')
RECURSIVE Split(_)
Split(path) ==
    IF path = <<>> THEN << <<>> >>
    ELSE LET r == Split(SubSeq(path, 1, Len(path) - 1))
             c == path[Len(path)]
         IN  IF c = "/" THEN Append(r, <<>>)
             ELSE [r EXCEPT ![Len(r)] = Append(@, c)]

\* f"{current_path}/{name}" if current_path else name
JoinPath(current_path, name) ==
    IF current_path # <<>> THEN current_path \o <<"/">> \o name ELSE name

\* The items of the repository: directories a and a/d, files a/b, a/d/e and c.
TreeItems ==
    { [path |-> <<"a">>, type |-> "tree"],
      [path |-> <<"a", "/", "b">>, type |-> "blob"],
      [path |-> <<"a", "/", "d">>, type |-> "tree"],
      [path |-> <<"a", "/", "d", "/", "e">>, type |-> "blob"],
      [path |-> <<"c">>, type |-> "blob"] }

\* The items are those of a git tree: every directory above an item is an item too.
IsGitTree(S) ==
    \A it \in S : \A k \in 1..(Len(Split(it.path)) - 1) :
        \E d \in S : d.type = "tree" /\ Split(d.path) = SubSeq(Split(it.path), 1, k)

\* tree.tree as the API may list it: the items of a git tree, each once, in any order.
TreeResponses ==
    {q \in UNION {[1..n -> TreeItems] : n \in 0..Cardinality(TreeItems)} :
        /\ \A i, j \in DOMAIN q : q[i] = q[j] => i = j
        /\ IsGitTree({q[i] : i \in DOMAIN q})}

\* The dictionary stored for the last part of an item's path.
Entry(item) ==
    IF item.type = "tree"
      THEN [type |-> item.type, path |-> item.path, children |-> Empty]
    ELSE [type |-> item.type, path |-> item.path]

\* The body of "for i, part in enumerate(path_parts)" from part i on.
RECURSIVE InsertItem(_, _, _)
InsertItem(current_level, path_parts, item) ==
    LET part == Head(path_parts)
    IN  IF Len(path_parts) = 1
          THEN Put(current_level, part, Entry(item))
        ELSE LET dir == IF part \in DOMAIN current_level THEN current_level[part]
                        ELSE [type |-> "tree", children |-> Empty]
             IN  Put(current_level, part,
                     [dir EXCEPT !.children = InsertItem(@, Tail(path_parts), item)])

\* "for item in tree.tree" over the items from i on.
RECURSIVE BuildFileTree(_, _, _)
BuildFileTree(file_tree, items, i) ==
    IF i > Len(items) THEN file_tree
    ELSE BuildFileTree(InsertItem(file_tree, Split(items[i].path), items[i]), items, i + 1)

\* GitHubExplorer.get_repository_tree
get_repository_tree(items) ==
    [tree |-> BuildFileTree(Empty, items, 1),
     total_files |-> Cardinality({i \in DOMAIN items : items[i].type = "blob"}),
     total_dirs |-> Cardinality({i \in DOMAIN items : items[i].type = "tree"})]

\* FileSelector._extract_file_paths_from_tree
RECURSIVE extract_file_paths_from_tree(_, _)
extract_file_paths_from_tree(tree_dict, current_path) ==
    UNION { LET info == tree_dict[name]
                item_path == JoinPath(current_path, name)
            IN  IF info.type = "blob" THEN {item_path}
                ELSE IF info.type = "tree" /\ "children" \in DOMAIN info
                  THEN extract_file_paths_from_tree(info.children, item_path)
                ELSE {}
            : name \in DOMAIN tree_dict }

\* The entry found at a path by following 'children' from the top of the dictionary.
NoEntry == [type |-> "missing"]
RECURSIVE EntryAt(_, _)
EntryAt(level, path_parts) ==
    LET part == Head(path_parts)
    IN  IF part \notin DOMAIN level THEN NoEntry
        ELSE IF Len(path_parts) = 1 THEN level[part]
        ELSE IF "children" \in DOMAIN level[part]
          THEN EntryAt(level[part].children, Tail(path_parts))
        ELSE NoEntry

NoTreeCall == [called |-> FALSE, items |-> <<>>, result |-> get_repository_tree(<<>>)]
TreeInit == tree = NoTreeCall

\* get_repository_tree(repo_name) on a repository whose tree the API lists as items
GetRepositoryTree ==
    \E items \in TreeResponses :
        tree' = [called |-> TRUE, items |-> items, result |-> get_repository_tree(items)]

TreeNext == GetRepositoryTree

BlobPaths == {tree.items[i].path : i \in {j \in DOMAIN tree.items : tree.items[j].type = "blob"}}

\* C14: in the dictionary get_repository_tree builds, every blob of the API's tree is
\* found at exactly its path through the 'children' of its ancestor directories,
\* whatever the order of the items, the files the dictionary holds are exactly the
\* blobs, and total_files is the number of blobs.
C14_EveryBlobReachable ==
    tree.called =>
        /\ \A p \in BlobPaths :
              /\ EntryAt(tree.result.tree, Split(p)).type = "blob"
              /\ EntryAt(tree.result.tree, Split(p)).path = p
        /\ extract_file_paths_from_tree(tree.result.tree, <<>>) = BlobPaths
        /\ tree.result.total_files = Cardinality(BlobPaths)

\* The API lists every directory before the items below it.
ParentsFirst ==
    \A i, j \in DOMAIN tree.items :
        (tree.items[i].type = "tree" /\ Len(tree.items[i].path) < Len(tree.items[j].path)
           /\ SubSeq(tree.items[j].path, 1, Len(tree.items[i].path) + 1)
                  = tree.items[i].path \o <<"/">>) => i < j

(***************************************************************************)
(*              discord_notifier: send_discord_notification                *)
(***************************************************************************)

\* The status Discord answers a delivered webhook message with.
NoContent == 204

\* os.environ: a variable is unset (None) or holds a string.  str.lower()
Lower(str) ==
    CASE str = "FALSE" -> "false"
      [] str = "False" -> "false"
      [] str = "TRUE" -> "true"
      [] str = "API" -> "api"
      [] str = "REST" -> "rest"
      [] str = "SDK" -> "sdk"
      [] str = "CLI" -> "cli"
      [] str = "Interface" -> "interface"
      [] OTHER -> str
DiscordEnvs ==
    [DISCORD_NOTIFIER_ENABLED : {None, "true", "false", "False", "no"},
     DISCORD_NOTIFIER_WEBHOOK_URL : {None, "", "https://discord/hook"}]

\* os.getenv(name, default)
Getenv(e, name, default) == IF e[name] = None THEN default ELSE e[name]

\* The message argument: None (not a string), the empty string, a text.
DiscordMessages == {None, "", "deployed"}

\* What requests.post does: it returns a response with a status code or raises.
HttpOutcomes ==
    [kind : {"response"}, status : {200, NoContent, 404, 500}]
        \cup [kind : {"ConnectionError", "Timeout", "TooManyRedirects", "TypeError"},
               status : {0}]

\* isinstance(exception, handler class) along the requests exception hierarchy
IsInstance(kind, class) ==
    \/ kind = class
    \/ class = "Exception"
    \/ class = "RequestException" /\ kind \in {"ConnectionError", "Timeout", "TooManyRedirects"}

\* The except clauses of send_discord_notification; each returns False.
DiscordHandlers == <<"ConnectionError", "Timeout", "RequestException", "Exception">>

\* "response.status_code != 204" does not hold
DeliveredAnySuccess(status_code) == status_code \in 200..299
Delivered(status_code) == status_code = NoContent

\* notifier.send_discord_notification: what it returns, the exception that leaves it,
\* and whether it sent the POST.
send_discord_notification(message, e, outcome) ==
    IF message = None \/ message = ""
      THEN [ret |-> FALSE, raised |-> NoExc, posted |-> FALSE]
    ELSE IF Lower(Getenv(e, "DISCORD_NOTIFIER_ENABLED", "true")) = "false"
      THEN [ret |-> FALSE, raised |-> NoExc, posted |-> FALSE]
    ELSE IF Getenv(e, "DISCORD_NOTIFIER_WEBHOOK_URL", "") = ""
      THEN [ret |-> FALSE, raised |-> NoExc, posted |-> FALSE]
    ELSE IF outcome.kind = "response"
      THEN [ret |-> Delivered(outcome.status), raised |-> NoExc, posted |-> TRUE]
    ELSE IF \E i \in DOMAIN DiscordHandlers : IsInstance(outcome.kind, DiscordHandlers[i])
      THEN [ret |-> FALSE, raised |-> NoExc, posted |-> TRUE]
    ELSE [ret |-> None, raised |-> Exc(outcome.kind, ""), posted |-> TRUE]

NoDiscordCall == [called |-> FALSE]
DcInit == dc = NoDiscordCall

\* send_discord_notification(message, title, bot_name), the plugin's tool
SendDiscordNotification ==
    \E message \in DiscordMessages, e \in DiscordEnvs, outcome \in HttpOutcomes :
        \E r \in {send_discord_notification(message, e, outcome)} :
            dc' = [called |-> TRUE, message |-> message, env |-> e, outcome |-> outcome,
                   ret |-> r.ret, raised |-> r.raised, posted |-> r.posted]

DcNext == SendDiscordNotification

\* The call is allowed to post: a non-empty message, not disabled, a webhook URL.
DiscordMayPost ==
    /\ dc.message \notin {None, ""}
    /\ dc.env.DISCORD_NOTIFIER_ENABLED \notin {"false", "False"}
    /\ dc.env.DISCORD_NOTIFIER_WEBHOOK_URL \notin {None, ""}

SuggestionThreshold == 60
MaxSuggestions == 3
ExtractLimit == 10

\* The glossary file: terms in file order, each with the see_also names of its
\* definitions.  In the second glossary a see_also name equals another term in lower case.
Glossaries ==
    { <<>>,
      << [term |-> "API", see_also |-> <<"Interface">>],
         [term |-> "REST", see_also |-> <<>>],
         [term |-> "SDK", see_also |-> <<>>],
         [term |-> "CLI", see_also |-> <<>>] >>,
      << [term |-> "API", see_also |-> <<>>],
         [term |-> "REST", see_also |-> <<"api">>] >> }

\* GlossaryManager.term_exists
TermExistsAlways(glossary, term) == TRUE
term_exists(glossary, term) == \E i \in DOMAIN glossary : glossary[i].term = term

\* _build_search_indexes, the inner loop over a term's see_also names from j on
RECURSIVE AddSeeAlso(_, _, _, _)
AddSeeAlso(idx, term, see_also, j) ==
    IF j > Len(see_also) THEN idx
    ELSE AddSeeAlso(
            [normalized_terms |-> Put(idx.normalized_terms, Lower(see_also[j]), term),
             all_searchable_terms |-> Append(idx.all_searchable_terms, see_also[j])],
            term, see_also, j + 1)

\* _build_search_indexes, the loop over the glossary's terms from i on
RECURSIVE BuildSearchIndexes(_, _, _)
BuildSearchIndexes(idx, glossary, i) ==
    IF i > Len(glossary) THEN idx
    ELSE BuildSearchIndexes(
            AddSeeAlso(
                [normalized_terms |-> Put(idx.normalized_terms, Lower(glossary[i].term),
                                          glossary[i].term),
                 all_searchable_terms |-> Append(idx.all_searchable_terms, glossary[i].term)],
                glossary[i].term, glossary[i].see_also, 1),
            glossary, i + 1)

\* GlossaryManager after load_glossary
GlossaryManager(glossary) ==
    BuildSearchIndexes([normalized_terms |-> Empty, all_searchable_terms |-> <<>>], glossary, 1)

\* GlossaryManager.get_original_term
get_original_term(idx, normalized_term) ==
    IF Lower(normalized_term) \in DOMAIN idx.normalized_terms
      THEN idx.normalized_terms[Lower(normalized_term)]
    ELSE normalized_term

\* list[:n]
TakeAll(list, n) == list
Take(list, n) == SubSeq(list, 1, Min(n, Len(list)))

\* A stable sort by descending score (list.sort(key=..., reverse=True)).
RECURSIVE SortByScore(_)
SortByScore(list) ==
    IF list = <<>> THEN <<>>
    ELSE LET rest == SortByScore(Tail(list))
             h == Head(list)
             k == Cardinality({i \in DOMAIN rest : rest[i].score > h.score})
         IN  SubSeq(rest, 1, k) \o <<h>> \o SubSeq(rest, k + 1, Len(rest))

\* The WRatio scores rapidfuzz may give a choice, in hundredths.
Scores == {50, 70, 90}

\* rapidfuzz.process.extract(query, choices, limit=10, score_cutoff=threshold): the
\* choices scoring at least the cutoff, best first, at most limit of them.
extract(choices, scores, limit, score_cutoff) ==
    LET all == [i \in DOMAIN choices |-> [text |-> choices[i], score |-> scores[i]]]
        Keep(m) == m.score >= score_cutoff
    IN  Take(SortByScore(SelectSeq(all, Keep)), limit)

\* FuzzySearch.search, the loop over the matches from i on
RECURSIVE FuzzyResults(_, _, _, _, _, _)
FuzzyResults(glossary, idx, matches, i, seen_terms, results) ==
    IF i > Len(matches) THEN results
    ELSE LET original_term == get_original_term(idx, matches[i].text)
         IN  IF original_term \in seen_terms
               THEN FuzzyResults(glossary, idx, matches, i + 1, seen_terms, results)
             ELSE FuzzyResults(glossary, idx, matches, i + 1, seen_terms \cup {original_term},
                     IF term_exists(glossary, original_term)
                       THEN Append(results, [term |-> original_term, score |-> matches[i].score,
                                             match_type |-> "fuzzy"])
                     ELSE results)

\* FuzzySearch.search; a result's confidence is its score in hundredths.
FuzzySearch(glossary, scores, threshold) ==
    LET idx == GlossaryManager(glossary)
    IN  IF idx.all_searchable_terms = <<>> THEN <<>>
        ELSE SortByScore(FuzzyResults(glossary, idx,
                 extract(idx.all_searchable_terms, scores, ExtractLimit, threshold),
                 1, {}, <<>>))

\* "for suggestion in suggestions: suggestion.match_type = ..."
Marked(results, match_type) ==
    [i \in DOMAIN results |-> [results[i] EXCEPT !.match_type = match_type]]

\* ExactSearch.lookup
ExactSearch_lookup(glossary, term, scores) ==
    LET idx == GlossaryManager(glossary)
    IN  IF Lower(term) \in DOMAIN idx.normalized_terms
          THEN << [term |-> idx.normalized_terms[Lower(term)], score |-> 100,
                   match_type |-> "exact"] >>
        ELSE Marked(Take(FuzzySearch(glossary, scores, SuggestionThreshold), MaxSuggestions),
                    "suggestion")

\* The agent: missing (no API key or its set-up failed), answering with a list of
\* names, or raising.  The names are the model's: some are no glossary terms.
AgentStates == {"none", "answers", "raises"}
AgentOutputs ==
    { <<>>, <<"API">>, <<"Bogus">>, <<"api", "REST">>, <<"API", "Bogus", "SDK", "REST", "CLI">>,
      <<"REST", "REST">> }

\* AgenticSearch.search, the loop over relevant_terms from i on
RECURSIVE AgentResponses(_, _, _)
AgentResponses(glossary, relevant_terms, i) ==
    IF i > Len(relevant_terms) THEN <<>>
    ELSE (IF term_exists(glossary, relevant_terms[i])
            THEN << [term |-> relevant_terms[i], score |-> 100, match_type |-> "agentic"] >>
          ELSE <<>>) \o AgentResponses(glossary, relevant_terms, i + 1)

\* AgenticSearch.search
AgenticSearch_search(glossary, agent, output, scores) ==
    IF agent = "answers"
      THEN AgentResponses(glossary, output, 1)
    ELSE Marked(Take(FuzzySearch(glossary, scores, SuggestionThreshold), MaxSuggestions),
                "agentic_fallback")

LexyQueries == {"api", "SDK", "interface", "ap", "xyz"}
ScoresFor(glossary) == [DOMAIN GlossaryManager(glossary).all_searchable_terms -> Scores]

NoLexyCall == [op |-> "none"]
LxInit == lx = NoLexyCall

\* lookup_term(term)
LookupTerm ==
    \E glossary \in Glossaries, term \in LexyQueries :
        \E scores \in ScoresFor(glossary) :
            lx' = [op |-> "lookup_term", glossary |-> glossary, query |-> term,
                   agent |-> "none", output |-> <<>>, raised |-> NoExc,
                   results |-> ExactSearch_lookup(glossary, term, scores)]

\* smart_query(query, context)
SmartQuery ==
    \E glossary \in Glossaries, query \in {"api", "xyz"}, agent \in AgentStates :
        \E output \in (IF agent = "answers" THEN AgentOutputs ELSE {<<>>}) :
            \E scores \in (IF agent = "answers" THEN {<<>>} ELSE ScoresFor(glossary)) :
                lx' = [op |-> "smart_query", glossary |-> glossary, query |-> query,
                       agent |-> agent, output |-> output, raised |-> NoExc,
                       results |-> AgenticSearch_search(glossary, agent, output, scores)]

LxNext ==
    \/ LookupTerm
    \/ SmartQuery

\* The name is a term of the glossary the call ran on.
InGlossary(term) == \E i \in DOMAIN lx.glossary : lx.glossary[i].term = term

\* The term looked up equals a glossary term / a see_also name, ignoring case.
MatchesTerm ==
    \E i \in DOMAIN lx.glossary : Lower(lx.glossary[i].term) = Lower(lx.query)
MatchesSeeAlso ==
    \E i \in DOMAIN lx.glossary : \E j \in DOMAIN lx.glossary[i].see_also :
        Lower(lx.glossary[i].see_also[j]) = Lower(lx.query)
OneExactResult ==
    /\ Len(lx.results) = 1
    /\ lx.results[1].score = 100
    /\ lx.results[1].match_type = "exact"
    /\ InGlossary(lx.results[1].term)
AtMost3Of(match_type) ==
    /\ Len(lx.results) <= 3
    /\ \A i \in DOMAIN lx.results :
          /\ lx.results[i].match_type = match_type
          /\ InGlossary(lx.results[i].term)

\* C16 as stated: lookup_term returns exactly one result with confidence 1.0 and
\* match_type 'exact' when the term equals a glossary term ignoring case, and otherwise
\* at most 3 suggestions, each with match_type 'suggestion' and naming a glossary term.
C16_ExactOnlyForTerms ==
    lx.op = "lookup_term" =>
        IF MatchesTerm THEN OneExactResult ELSE AtMost3Of("suggestion")

\* C16 amended: the one exact result is also returned when the term equals, ignoring
\* case, a see_also name of a glossary term; it names a glossary term.  Otherwise at
\* most 3 suggestions come back, each with match_type 'suggestion', naming a glossary term.
C16_ExactForTermsAndSeeAlso ==
    lx.op = "lookup_term" =>
        IF MatchesTerm \/ MatchesSeeAlso THEN OneExactResult ELSE AtMost3Of("suggestion")

\* A see_also name was looked up and the exact result of its term came back.
C16_Witness ==
    /\ lx.op = "lookup_term"
    /\ MatchesSeeAlso
    /\ ~MatchesTerm
    /\ OneExactResult

\* Three suggestions came back for a term that has no exact match.
C16_SuggestionsWitness ==
    /\ lx.op = "lookup_term"
    /\ ~MatchesTerm /\ ~MatchesSeeAlso
    /\ Len(lx.results) = 3

StopAfterAttempt == 3
WaitMultiplier == 1
WaitMin == 4
WaitMax == 10

Max(a, b) == IF a >= b THEN a ELSE b

\* tenacity.wait_exponential: multiplier * 2^(attempt_number - 1), kept within min and max
wait_exponential_unclamped(attempt_number) == WaitMultiplier * 2 ^ (attempt_number - 1)
wait_exponential(attempt_number) ==
    Max(Max(0, WaitMin), Min(WaitMultiplier * 2 ^ (attempt_number - 1), WaitMax))

\* tenacity.stop_after_attempt
stop_after_attempt(attempt_number) == attempt_number >= StopAfterAttempt

\* What client.models.generate_content raises: its message names a rate limit or not.
GeminiErrors == {"429 quota exceeded", "503 unavailable", "timed out"}

\* _make_gemini_request's except clause: the exception that leaves one attempt
RaisedByAttempt(error) ==
    IF error = "429 quota exceeded" THEN Exc("RateLimitError", "Rate limit exceeded")
    ELSE Exc("Exception", error)

\* retry_if_exception_type((RateLimitError, Exception))
retry_if_exception_type(e) ==
    IsInstance(e.type, "RateLimitError") \/ IsInstance(e.type, "Exception")

\* The environment search_web reads.
SearchEnvs ==
    [GOOGLE_WEBSEARCH_ENABLED : {None, "False"},
     GOOGLE_WEBSEARCH_API_KEY : {None, "key"}]

NoSearch ==
    [phase |-> "idle", env |-> None, attempt_number |-> 0, errors |-> <<>>, waits |-> <<>>,
     slept |-> 0, gave_up |-> FALSE, status |-> None, error |-> None]
SwInit == sw = NoSearch

\* search_web(search_term) up to its first request
SearchWeb ==
    /\ sw.phase = "idle"
    /\ \E e \in SearchEnvs :
          sw' = IF Lower(Getenv(e, "GOOGLE_WEBSEARCH_ENABLED", "true")) = "false"
                  THEN [NoSearch EXCEPT !.phase = "done", !.env = e, !.status = "disabled"]
                ELSE IF Getenv(e, "GOOGLE_WEBSEARCH_API_KEY", "") = ""
                  THEN [NoSearch EXCEPT !.phase = "done", !.env = e, !.status = "error",
                                        !.error = "Google Gemini API key not provided"]
                ELSE [NoSearch EXCEPT !.phase = "requesting", !.env = e, !.attempt_number = 1]

\* One attempt of _make_gemini_request returns the response.
AttemptSucceeds ==
    /\ sw.phase = "requesting"
    /\ sw' = [sw EXCEPT !.phase = "processing"]

\* One attempt raises: tenacity sleeps and retries, or stops and re-raises the
\* exception, which search_web turns into an error result.
AttemptFails ==
    /\ sw.phase = "requesting"
    /\ \E error \in GeminiErrors :
          \E e \in {RaisedByAttempt(error)} :
              sw' = IF ~retry_if_exception_type(e) \/ stop_after_attempt(sw.attempt_number)
                      THEN [sw EXCEPT !.phase = "done", !.errors = Append(@, error),
                                      !.gave_up = TRUE, !.status = "error",
                                      !.error = IF IsInstance(e.type, "RateLimitError")
                                                  THEN "Rate limit exceeded"
                                                ELSE "Web search failed"]
                    ELSE [sw EXCEPT !.phase = "sleeping", !.errors = Append(@, error),
                                    !.waits = Append(@, wait_exponential(sw.attempt_number)),
                                    !.slept = 0]

\* A second of tenacity's sleep passes.
Sleep ==
    /\ sw.phase = "sleeping"
    /\ sw.slept < sw.waits[Len(sw.waits)]
    /\ sw' = [sw EXCEPT !.slept = @ + 1]

\* The sleep is over: the next attempt starts.
Retry ==
    /\ sw.phase = "sleeping"
    /\ sw.slept >= sw.waits[Len(sw.waits)]
    /\ sw' = [sw EXCEPT !.phase = "requesting", !.attempt_number = @ + 1]

\* search_web reads the response; what it raises there is returned as an error.
ProcessResponse ==
    /\ sw.phase = "processing"
    /\ \E ok \in BOOLEAN :
          sw' = IF ok THEN [sw EXCEPT !.phase = "done", !.status = "success"]
                ELSE [sw EXCEPT !.phase = "done", !.status = "error", !.error = "Web search failed"]

\* search_web has returned; the next call starts afresh.
SearchReturns ==
    /\ sw.phase = "done"
    /\ sw' = NoSearch

SwNext ==
    \/ SearchWeb
    \/ AttemptSucceeds
    \/ AttemptFails
    \/ Sleep
    \/ Retry
    \/ ProcessResponse
    \/ SearchReturns

\* C18: search_web attempts the Gemini request at most 3 times; between two attempts
\* it waits between 4 and 10 seconds, no wait shorter than the one before; it retries
\* on every exception, so it gives up only on the third failure; and once the third
\* attempt has failed it returns a result with status 'error'.
C18_ThreeAttemptsThenError ==
    /\ sw.attempt_number <= 3
    /\ Len(sw.errors) <= 3
    /\ \A i \in DOMAIN sw.waits :
          /\ sw.waits[i] >= 4 /\ sw.waits[i] <= 10
          /\ i > 1 => sw.waits[i] >= sw.waits[i - 1]
    /\ sw.phase = "sleeping" => sw.slept <= sw.waits[Len(sw.waits)]
    /\ sw.phase = "requesting" =>
          (Len(sw.errors) = sw.attempt_number - 1 /\ Len(sw.waits) = sw.attempt_number - 1)
    /\ sw.gave_up => (Len(sw.errors) = 3 /\ sw.attempt_number = 3)
    /\ Len(sw.errors) = 3 => (sw.phase = "done" /\ sw.gave_up /\ sw.status = "error")

\* The third attempt failed after two waits and the call returned an error.
C18_Witness ==
    /\ sw.phase = "done"
    /\ sw.gave_up
    /\ Len(sw.errors) = 3
    /\ Len(sw.waits) = 2
    /\ sw.status = "error"

(***************************************************************************)
(*     github_browser: threads calling clone_repository on the global      *)
(*     cloner                                                              *)
(***************************************************************************)

\* Two threads of the hosting process each call
\* get_repository_cloner().clone_repository("a", org="o") once; nothing in
\* clone_repository holds a lock, so their steps interleave on active_clones and on
\* the temp directory.  The clock counts seconds here and stops at MaxSeconds.
Threads == {"t1", "t2"}
MaxSeconds == 2

ThreadFullName == FullName(<<"a">>, <<"o">>)
ThreadKey == CloneKey(ThreadFullName, NoStr, FALSE)

NotCalled == [pc |-> "idle", clone_path |-> ClonePath(ThreadFullName, FALSE, 0), ret |-> NoneRet]
ThInit ==
    /\ now = 0 /\ env = None /\ ghInit = FALSE /\ last = NoCall
    /\ cloner = RepositoryCloner(Empty, 0).cloner
    /\ disk = Empty
    /\ gitRuns = 0
    /\ thr = [clock |-> 0, calls |-> [t \in Threads |-> NotCalled]]

\* The thread enters clone_repository.
ThreadCall(t) ==
    /\ thr.calls[t].pc = "idle"
    /\ thr' = [thr EXCEPT !.calls[t].pc = "check"]
    /\ UNCHANGED <<cloner, disk, gitRuns>>

\* "Check if already cloned and not forcing re-clone", then the clone directory's
\* name is made from the current second.
ThreadCheck(t) ==
    /\ thr.calls[t].pc = "check"
    /\ LET ac == cloner.active_clones
           tracked == UseExisting(FALSE, ac, ThreadKey)
       IN  IF tracked /\ PathExists(disk, ac[ThreadKey].clone_path)
             THEN /\ thr' = [thr EXCEPT !.calls[t].pc = "done", !.calls[t].ret = ac[ThreadKey]]
                  /\ UNCHANGED cloner
           ELSE /\ cloner' = IF tracked
                                THEN [cloner EXCEPT !.active_clones =
                                         Restrict(ac, DOMAIN ac \ {ThreadKey})]
                              ELSE cloner
                /\ thr' = [thr EXCEPT !.calls[t].pc = "git",
                                      !.calls[t].clone_path =
                                          ClonePath(ThreadFullName, FALSE, thr.clock)]
    /\ UNCHANGED <<disk, gitRuns>>

\* subprocess.run(["git", "clone", ...]): git refuses a destination that exists
\* (returncode != 0, the call returns None) and creates the directory otherwise.
ThreadGitClone(t) ==
    /\ thr.calls[t].pc = "git"
    /\ gitRuns' = gitRuns + 1
    /\ IF PathExists(disk, thr.calls[t].clone_path)
         THEN /\ thr' = [thr EXCEPT !.calls[t].pc = "done", !.calls[t].ret = NoneRet]
              /\ UNCHANGED disk
       ELSE /\ disk' = Put(disk, thr.calls[t].clone_path,
                           [size |-> DefaultMaxCloneSizeMb, mtime |-> thr.clock])
            /\ thr' = [thr EXCEPT !.calls[t].pc = "track"]
    /\ UNCHANGED cloner

\* The size check passes; "self.active_clones[clone_key] = clone_info; return clone_info"
ThreadTrack(t) ==
    /\ thr.calls[t].pc = "track"
    /\ LET clone_info == [kind |-> "CloneInfo", full_name |-> ThreadFullName,
                          branch |-> <<"m", "a", "i", "n">>,
                          clone_path |-> thr.calls[t].clone_path,
                          clone_time |-> thr.clock, with_submodules |-> FALSE]
       IN  /\ cloner' = [cloner EXCEPT !.active_clones = Put(@, ThreadKey, clone_info)]
           /\ thr' = [thr EXCEPT !.calls[t].pc = "done", !.calls[t].ret = clone_info]
    /\ UNCHANGED <<disk, gitRuns>>

\* A second passes.
ThreadTick ==
    /\ thr.clock < MaxSeconds
    /\ thr' = [thr EXCEPT !.clock = @ + 1]
    /\ UNCHANGED <<cloner, disk, gitRuns>>

ThNext ==
    \/ \E t \in Threads : ThreadCall(t)
    \/ \E t \in Threads : ThreadCheck(t)
    \/ \E t \in Threads : ThreadGitClone(t)
    \/ \E t \in Threads : ThreadTrack(t)
    \/ ThreadTick

AllDone == \A t \in Threads : thr.calls[t].pc = "done"

\* C19: concurrent clone_repository calls on the shared global cloner for the same
\* (repository, branch, submodules) key run at most one git clone and, once they have
\* returned, leave exactly one clone directory, the one recorded in active_clones.
C19_OneCloneForConcurrentCalls ==
    /\ gitRuns <= 1
    /\ Cardinality(DOMAIN disk) <= 1
    /\ AllDone =>
          /\ ThreadKey \in DOMAIN cloner.active_clones
          /\ DOMAIN disk = {cloner.active_clones[ThreadKey].clone_path}

\* ---- a plugin that is not in use keeps its state ----
GhIdle ==
    /\ now = 0 /\ env = None /\ ghInit = FALSE /\ cloner = NoCloner
    /\ disk = Empty /\ last = NoCall /\ gitRuns = 0
RgIdle == config = PluginConfig0 /\ rgLast = NoRgCall /\ reqs = None
SpIdle ==
    /\ spEnv = [creds |-> FALSE, production |-> FALSE, token |-> FALSE]
    /\ spInit = FALSE /\ spCtl = NoController /\ spLast = NoSpCall
ExtIdle == ext = None
TreeIdle == tree = None
DcIdle == dc = None
LxIdle == lx = None
SwIdle == sw = None
ThIdle == thr = None
OtherIdle == ExtIdle /\ TreeIdle /\ DcIdle /\ LxIdle /\ SwIdle /\ ThIdle

\* The repository cloner and its tools.
Init == GhInit /\ RgIdle /\ SpIdle /\ OtherIdle
Next == GhNext /\ UNCHANGED rgVars /\ UNCHANGED spVars /\ UNCHANGED otherVars
Spec == Init /\ [][Next]_vars

\* The ripgrep tools, called one at a time.
InitRg == GhIdle /\ RgInit /\ reqs = None /\ SpIdle /\ OtherIdle
NextRg == RgNext /\ UNCHANGED reqs /\ UNCHANGED ghVars /\ UNCHANGED spVars /\ UNCHANGED otherVars
SpecRg == InitRg /\ [][NextRg]_vars

\* Tenant requests interleaving on the shared configuration.
InitTenant == GhIdle /\ TenantInit /\ rgLast = NoRgCall /\ SpIdle /\ OtherIdle
NextTenant ==
    TenantNext /\ UNCHANGED rgLast /\ UNCHANGED ghVars /\ UNCHANGED spVars /\ UNCHANGED otherVars
SpecTenant == InitTenant /\ [][NextTenant]_vars

\* The Spotify tools.
InitSpotify == GhIdle /\ RgIdle /\ SpInit /\ OtherIdle
NextSpotify == SpNext /\ UNCHANGED ghVars /\ UNCHANGED rgVars /\ UNCHANGED otherVars
SpecSpotify == InitSpotify /\ [][NextSpotify]_vars

\* One tool call waiting on its external call.
InitCalls == GhIdle /\ RgIdle /\ SpIdle /\ ExtInit /\ TreeIdle /\ DcIdle /\ LxIdle /\ SwIdle /\ ThIdle
NextCalls ==
    ExtNext /\ UNCHANGED ghVars /\ UNCHANGED rgVars /\ UNCHANGED spVars
            /\ UNCHANGED <<tree, dc, lx, sw, thr>>
SpecCalls == InitCalls /\ [][NextCalls]_vars

\* get_repository_tree on the trees the API may return.
InitTree == GhIdle /\ RgIdle /\ SpIdle /\ TreeInit /\ ExtIdle /\ DcIdle /\ LxIdle /\ SwIdle /\ ThIdle
NextTree ==
    TreeNext /\ UNCHANGED ghVars /\ UNCHANGED rgVars /\ UNCHANGED spVars
             /\ UNCHANGED <<ext, dc, lx, sw, thr>>
SpecTree == InitTree /\ [][NextTree]_vars

\* send_discord_notification, one call at a time.
InitDiscord == GhIdle /\ RgIdle /\ SpIdle /\ DcInit /\ ExtIdle /\ TreeIdle /\ LxIdle /\ SwIdle /\ ThIdle
NextDiscord ==
    DcNext /\ UNCHANGED ghVars /\ UNCHANGED rgVars /\ UNCHANGED spVars
           /\ UNCHANGED <<ext, tree, lx, sw, thr>>
SpecDiscord == InitDiscord /\ [][NextDiscord]_vars

\* lexy's look-ups, one call at a time.
InitLexy == GhIdle /\ RgIdle /\ SpIdle /\ LxInit /\ ExtIdle /\ TreeIdle /\ DcIdle /\ SwIdle /\ ThIdle
NextLexy ==
    LxNext /\ UNCHANGED ghVars /\ UNCHANGED rgVars /\ UNCHANGED spVars
           /\ UNCHANGED <<ext, tree, dc, sw, thr>>
SpecLexy == InitLexy /\ [][NextLexy]_vars

\* One search_web call at a time.
InitSearch == GhIdle /\ RgIdle /\ SpIdle /\ SwInit /\ ExtIdle /\ TreeIdle /\ DcIdle /\ LxIdle /\ ThIdle
NextSearch ==
    SwNext /\ UNCHANGED ghVars /\ UNCHANGED rgVars /\ UNCHANGED spVars
           /\ UNCHANGED <<ext, tree, dc, lx, thr>>
SpecSearch == InitSearch /\ [][NextSearch]_vars

\* Threads sharing the global cloner.
InitThreads == ThInit /\ RgIdle /\ SpIdle /\ ExtIdle /\ TreeIdle /\ DcIdle /\ LxIdle /\ SwIdle
NextThreads ==
    ThNext /\ UNCHANGED <<now, env, ghInit, last>> /\ UNCHANGED rgVars /\ UNCHANGED spVars
           /\ UNCHANGED <<ext, tree, dc, lx, sw>>
SpecThreads == InitThreads /\ [][NextThreads]_vars

====
